---- MODULE Spec2Model ----
(***************************************************************************)
(* Model of cloud-deploy/ollama/colab.py: the launcher script that starts  *)
(* "ollama serve" from a background thread, pulls the configured models    *)
(* one after another, opens an ngrok tunnel to the local port and idles    *)
(* until it is interrupted.                                                *)
(*                                                                         *)
(* The main flow and the background thread are two processes; `pc` and     *)
(* `tpc` are their positions.  `trace` is the sequence of external calls   *)
(* and prints in the order they are issued.  KeyboardInterrupt is an       *)
(* environment action that may hit the main flow at any position.          *)
(* The ollama binary and pyngrok are assumed installed (lines 4-5), so     *)
(* launching a child never fails to exec; a pull may still exit non-zero.  *)
(***************************************************************************)
EXTENDS Integers, Sequences, FiniteSets, TLC

\* ---------------------------------------------------------------- bounds
\* longest configured model list explored
MaxModels == 2
\* idle-loop iterations explored before the interrupt must arrive
MaxIdle == 2

\* ------------------------------------------------------ program constants
\* time.sleep(10)
WARMUP == 10
\* ngrok.connect(11434)
OLLAMA_PORT == 11434
\* time.sleep(1) of the idle loop
IDLE_STEP == 1

NGROK_AUTH_TOKEN == "T"

\* identifiers a configured list is drawn from (the two of the shipped list)
ModelIds == {"gpt-oss:20b", "qwen2.5:14b"}

\* exit statuses of "ollama pull"
ExitCodes == {0, 1}

\* the URL ngrok hands back
PublicUrl == "https://public.ngrok"

\* ----------------------------------------------------------- environment
NoEnv == [k \in {} |-> ""]

\* environments the script can inherit: with and without earlier settings
\* of the two variables the script overrides
Environs ==
    { [k \in {"PATH"} |-> "/usr/bin"],
      [k \in {"PATH", "OLLAMA_HOST", "OLLAMA_ORIGINS"} |->
          IF k = "PATH" THEN "/usr/bin"
          ELSE IF k = "OLLAMA_HOST" THEN "127.0.0.1"
          ELSE "http://localhost"] }

\* d[k] = v on a dict
SetItem(d, k, v) ==
    [x \in (DOMAIN d) \cup {k} |-> IF x = k THEN v ELSE d[x]]

\* all lists of length <= n over S
SeqsUpTo(S, n) == UNION { [1..m -> S] : m \in 0..n }

VARIABLES
    MODELS_TO_PULL, \* the configured list (fixed for the run)
    environ,        \* os.environ at script start
    auth_token,     \* conf.get_default().auth_token
    my_env,         \* the environment copy handed to children
    pc,             \* position of the main flow
    tpc,            \* position of ollama_thread
    i,              \* index of the for loop's current model (1-based)
    outcomes,       \* exit statuses of the pulls that have returned
    public_url,     \* public_url, "" while unassigned
    tunnel,         \* the ngrok tunnel: "none", "opening", "open", "failed", "killed"
    elapsed,        \* time the main flow has spent in completed sleeps
    ticks,          \* idle-loop iterations done
    intAt,          \* positions at which KeyboardInterrupt was delivered
    trace           \* external calls and prints, in issue order

vars == <<MODELS_TO_PULL, environ, auth_token, my_env, pc, tpc, i, outcomes,
          public_url, tunnel, elapsed, ticks, intAt, trace>>

\* ----------------------------------------------------------------- events
Ev(op, text, arg, num, env) ==
    [op |-> op, text |-> text, arg |-> arg, num |-> num, env |-> env]

EvPrint(text, arg, num) == Ev("print", text, arg, num, NoEnv)
EvServe(env)            == Ev("serve", "", "", 0, env)
EvSleep(n)              == Ev("sleep", "", "", n, NoEnv)
EvPull(model, env)      == Ev("pull", "", model, 0, env)
EvConnect(port)         == Ev("connect", "", "", port, NoEnv)
EvKill                  == Ev("kill", "", "", 0, NoEnv)

N == Len(MODELS_TO_PULL)

Init ==
    /\ MODELS_TO_PULL \in SeqsUpTo(ModelIds, MaxModels)
    /\ environ \in Environs
    /\ auth_token = ""
    /\ my_env = NoEnv
    /\ pc = "config"
    /\ tpc = "unstarted"
    /\ i = 1
    /\ outcomes = << >>
    /\ public_url = ""
    /\ tunnel = "none"
    /\ elapsed = 0
    /\ ticks = 0
    /\ intAt = << >>
    /\ trace = << >>

\* ------------------------------------------------------------- main flow
\* line 25
SetAuthToken ==
    /\ pc = "config"
    /\ auth_token' = NGROK_AUTH_TOKEN
    /\ pc' = "env"
    /\ UNCHANGED <<MODELS_TO_PULL, environ, my_env, tpc, i, outcomes,
                   public_url, tunnel, elapsed, ticks, intAt, trace>>


\* BuildEnv starting from an empty dict instead of a copy of os.environ
BuildEnv_Fresh ==
    /\ pc = "env"
    /\ my_env' = SetItem(SetItem(NoEnv, "OLLAMA_ORIGINS", "*"),
                         "OLLAMA_HOST", "0.0.0.0")
    /\ pc' = "spawn"
    /\ UNCHANGED <<MODELS_TO_PULL, environ, auth_token, tpc, i, outcomes,
                   public_url, tunnel, elapsed, ticks, intAt, trace>>

\* lines 28-30
BuildEnv ==
    /\ pc = "env"
    /\ my_env' = SetItem(SetItem(environ, "OLLAMA_ORIGINS", "*"),
                         "OLLAMA_HOST", "0.0.0.0")
    /\ pc' = "spawn"
    /\ UNCHANGED <<MODELS_TO_PULL, environ, auth_token, tpc, i, outcomes,
                   public_url, tunnel, elapsed, ticks, intAt, trace>>

\* lines 37-38: the thread is created and started; start() returns once the
\* thread exists, not once its target has run
StartThread ==
    /\ pc = "spawn"
    /\ tpc = "unstarted"
    /\ tpc' = "started"
    /\ pc' = "sleep"
    /\ UNCHANGED <<MODELS_TO_PULL, environ, auth_token, my_env, i, outcomes,
                   public_url, tunnel, elapsed, ticks, intAt, trace>>


\* SleepBegin with a sleep that does not block the main flow
SleepBegin_NoWait ==
    /\ pc = "sleep"
    /\ trace' = Append(trace, EvSleep(WARMUP))
    /\ pc' = "announce"
    /\ UNCHANGED <<MODELS_TO_PULL, environ, auth_token, my_env, tpc, i,
                   outcomes, public_url, tunnel, elapsed, ticks, intAt>>

\* line 40, the call
SleepBegin ==
    /\ pc = "sleep"
    /\ trace' = Append(trace, EvSleep(WARMUP))
    /\ pc' = "sleeping"
    /\ UNCHANGED <<MODELS_TO_PULL, environ, auth_token, my_env, tpc, i,
                   outcomes, public_url, tunnel, elapsed, ticks, intAt>>

\* line 40, the return
SleepEnd ==
    /\ pc = "sleeping"
    /\ elapsed' = elapsed + WARMUP
    /\ pc' = "announce"
    /\ UNCHANGED <<MODELS_TO_PULL, environ, auth_token, my_env, tpc, i,
                   outcomes, public_url, tunnel, ticks, intAt, trace>>

\* line 43
PrintTotal ==
    /\ pc = "announce"
    /\ trace' = Append(trace, EvPrint("total", "", N))
    /\ pc' = "loop"
    /\ UNCHANGED <<MODELS_TO_PULL, environ, auth_token, my_env, tpc, i,
                   outcomes, public_url, tunnel, elapsed, ticks, intAt>>

\* lines 45-47: next model of the list, its announcement, subprocess.run called
PullBegin ==
    /\ pc = "loop"
    /\ i <= N
    /\ trace' = trace \o << EvPrint("downloading", MODELS_TO_PULL[i], 0),
                            EvPull(MODELS_TO_PULL[i], my_env) >>
    /\ pc' = "pulling"
    /\ UNCHANGED <<MODELS_TO_PULL, environ, auth_token, my_env, tpc, i,
                   outcomes, public_url, tunnel, elapsed, ticks, intAt>>


\* PullReturn with the exit status checked: a failed pull abandons the list
PullReturn_StopOnFailure ==
    /\ pc = "pulling"
    /\ \E rc \in ExitCodes :
          /\ outcomes' = Append(outcomes, rc)
          /\ pc' = IF rc = 0 THEN "ready" ELSE "loop"
          /\ i' = IF rc = 0 THEN i ELSE N + 1
    /\ UNCHANGED <<MODELS_TO_PULL, environ, auth_token, my_env, tpc,
                   public_url, tunnel, elapsed, ticks, intAt, trace>>

\* line 47: subprocess.run returns; the CompletedProcess is dropped
PullReturn ==
    /\ pc = "pulling"
    /\ \E rc \in ExitCodes : outcomes' = Append(outcomes, rc)
    /\ pc' = "ready"
    /\ UNCHANGED <<MODELS_TO_PULL, environ, auth_token, my_env, tpc, i,
                   public_url, tunnel, elapsed, ticks, intAt, trace>>


\* PrintReady with the message printed only for a pull that exited 0
PrintReady_OnlyOnSuccess ==
    /\ pc = "ready"
    /\ trace' = IF outcomes[i] = 0
                THEN Append(trace, EvPrint("ready", MODELS_TO_PULL[i], 0))
                ELSE trace
    /\ i' = i + 1
    /\ pc' = "loop"
    /\ UNCHANGED <<MODELS_TO_PULL, environ, auth_token, my_env, tpc,
                   outcomes, public_url, tunnel, elapsed, ticks, intAt>>

\* line 48, and the loop moves on
PrintReady ==
    /\ pc = "ready"
    /\ trace' = Append(trace, EvPrint("ready", MODELS_TO_PULL[i], 0))
    /\ i' = i + 1
    /\ pc' = "loop"
    /\ UNCHANGED <<MODELS_TO_PULL, environ, auth_token, my_env, tpc,
                   outcomes, public_url, tunnel, elapsed, ticks, intAt>>


\* ConnectBegin with the tunnel opened from inside the loop
ConnectBegin_Early ==
    /\ pc = "loop"
    /\ trace' = Append(trace, EvConnect(OLLAMA_PORT))
    /\ tunnel' = "opening"
    /\ pc' = "connecting"
    /\ UNCHANGED <<MODELS_TO_PULL, environ, auth_token, my_env, tpc, i,
                   outcomes, public_url, elapsed, ticks, intAt>>

\* lines 51-52: the list is exhausted, ngrok.connect called
ConnectBegin ==
    /\ pc = "loop"
    /\ i > N
    /\ trace' = Append(trace, EvConnect(OLLAMA_PORT))
    /\ tunnel' = "opening"
    /\ pc' = "connecting"
    /\ UNCHANGED <<MODELS_TO_PULL, environ, auth_token, my_env, tpc, i,
                   outcomes, public_url, elapsed, ticks, intAt>>

\* line 52: connect returns a tunnel
ConnectReturn ==
    /\ pc = "connecting"
    /\ public_url' = PublicUrl
    /\ tunnel' = "open"
    /\ pc' = "banner"
    /\ UNCHANGED <<MODELS_TO_PULL, environ, auth_token, my_env, tpc, i,
                   outcomes, elapsed, ticks, intAt, trace>>


\* ConnectRaise with no except clause around the tunnel setup
ConnectRaise_Uncaught ==
    /\ pc = "connecting"
    /\ tunnel' = "failed"
    /\ pc' = "crashed"
    /\ UNCHANGED <<MODELS_TO_PULL, environ, auth_token, my_env, tpc, i,
                   outcomes, public_url, elapsed, ticks, intAt, trace>>

\* ConnectRaise with the tunnel setup tried a second time after a failure
ConnectRaise_Retry ==
    /\ pc = "connecting"
    /\ tunnel' = "failed"
    /\ pc' = IF Len(SelectSeq(trace, LAMBDA e : e.op = "connect")) < 2
             THEN "loop" ELSE "except"
    /\ UNCHANGED <<MODELS_TO_PULL, environ, auth_token, my_env, tpc, i,
                   outcomes, public_url, elapsed, ticks, intAt, trace>>

\* line 52 raises an Exception: control goes to line 59
ConnectRaise ==
    /\ pc = "connecting"
    /\ tunnel' = "failed"
    /\ pc' = "except"
    /\ UNCHANGED <<MODELS_TO_PULL, environ, auth_token, my_env, tpc, i,
                   outcomes, public_url, elapsed, ticks, intAt, trace>>

\* lines 53-57
PrintBanner ==
    /\ pc = "banner"
    /\ trace' = trace \o << EvPrint("rule", "", 0),
                            EvPrint("all_ready", "", 0),
                            EvPrint("url", public_url, 0),
                            EvPrint("models", "", N),
                            EvPrint("rule", "", 0) >>
    /\ pc' = "idle"
    /\ UNCHANGED <<MODELS_TO_PULL, environ, auth_token, my_env, tpc, i,
                   outcomes, public_url, tunnel, elapsed, ticks, intAt>>

\* line 60
PrintError ==
    /\ pc = "except"
    /\ trace' = Append(trace, EvPrint("error", "", 0))
    /\ pc' = "idle"
    /\ UNCHANGED <<MODELS_TO_PULL, environ, auth_token, my_env, tpc, i,
                   outcomes, public_url, tunnel, elapsed, ticks, intAt>>

\* lines 63-65: one iteration of the idle loop
IdleSleep ==
    /\ pc = "idle"
    /\ ticks < MaxIdle
    /\ ticks' = ticks + 1
    /\ elapsed' = elapsed + IDLE_STEP
    /\ trace' = Append(trace, EvSleep(IDLE_STEP))
    /\ UNCHANGED <<MODELS_TO_PULL, environ, auth_token, my_env, pc, tpc, i,
                   outcomes, public_url, tunnel, intAt>>

\* line 67, the call
KillBegin ==
    /\ pc = "handler"
    /\ trace' = Append(trace, EvKill)
    /\ pc' = "killing"
    /\ UNCHANGED <<MODELS_TO_PULL, environ, auth_token, my_env, tpc, i,
                   outcomes, public_url, tunnel, elapsed, ticks, intAt>>

\* line 67, the return; the script falls off its end
KillReturn ==
    /\ pc = "killing"
    /\ tunnel' = "killed"
    /\ pc' = "exit"
    /\ UNCHANGED <<MODELS_TO_PULL, environ, auth_token, my_env, tpc, i,
                   outcomes, public_url, elapsed, ticks, intAt, trace>>


\* InterruptTarget with no KeyboardInterrupt handler around the idle loop
InterruptTarget_NoHandler(at) == "crashed"

\* InterruptTarget with the handler of line 66 around the whole script
InterruptTarget_CatchAll(at) ==
    IF at \in {"handler", "killing"} THEN "crashed" ELSE "handler"

\* where a KeyboardInterrupt takes the main flow: only the try of lines 63-65
\* has a handler for it (line 59 catches Exception, which it is not)
InterruptTarget(at) == IF at = "idle" THEN "handler" ELSE "crashed"

\* KeyboardInterrupt delivered to the main flow
Interrupt ==
    /\ pc \notin {"exit", "crashed"}
    /\ intAt' = Append(intAt, pc)
    /\ pc' = InterruptTarget(pc)
    /\ UNCHANGED <<MODELS_TO_PULL, environ, auth_token, my_env, tpc, i,
                   outcomes, public_url, tunnel, elapsed, ticks, trace>>

\* ----------------------------------------------------- background thread
\* line 34: start_ollama_server, run by ollama_thread whenever it is
\* scheduled; nothing in the main flow waits for it
ThreadPrint ==
    /\ tpc = "started"
    /\ trace' = Append(trace, EvPrint("starting", "", 0))
    /\ tpc' = "popen"
    /\ UNCHANGED <<MODELS_TO_PULL, environ, auth_token, my_env, pc, i,
                   outcomes, public_url, tunnel, elapsed, ticks, intAt>>

\* line 35: "ollama serve" launched, not waited for; the thread ends
StartOllamaServer ==
    /\ tpc = "popen"
    /\ trace' = Append(trace, EvServe(my_env))
    /\ tpc' = "done"
    /\ UNCHANGED <<MODELS_TO_PULL, environ, auth_token, my_env, pc, i,
                   outcomes, public_url, tunnel, elapsed, ticks, intAt>>

Next ==
    \/ SetAuthToken
    \/ BuildEnv
    \/ StartThread
    \/ SleepBegin
    \/ SleepEnd
    \/ PrintTotal
    \/ PullBegin
    \/ PullReturn
    \/ PrintReady
    \/ ConnectBegin
    \/ ConnectReturn
    \/ ConnectRaise
    \/ PrintBanner
    \/ PrintError
    \/ IdleSleep
    \/ KillBegin
    \/ KillReturn
    \/ Interrupt
    \/ ThreadPrint
    \/ StartOllamaServer

Spec == Init /\ [][Next]_vars

\* ------------------------------------------------- reading the call trace
IsServe(e)   == e.op = "serve"
IsPull(e)    == e.op = "pull"
IsConnect(e) == e.op = "connect"
IsKill(e)    == e.op = "kill"
IsChild(e)   == e.op \in {"serve", "pull"}
IsReady(e)   == e.op = "print" /\ e.text = "ready"
IsUrl(e)     == e.op = "print" /\ e.text = "url"
IsError(e)   == e.op = "print" /\ e.text = "error"
IsPullOrReady(e) == IsPull(e) \/ IsReady(e)
IsWarmup(e)  == e.op = "sleep" /\ e.num = WARMUP
\* the calls of the expected sequence: everything but progress prints and
\* the idle loop's own sleeps
IsSequenced(e) ==
    \/ e.op \in {"serve", "pull", "connect", "kill"}
    \/ IsWarmup(e)
    \/ IsUrl(e)

Serves   == SelectSeq(trace, IsServe)
Pulls    == SelectSeq(trace, IsPull)
Connects == SelectSeq(trace, IsConnect)
Kills    == SelectSeq(trace, IsKill)
Readies  == SelectSeq(trace, IsReady)

Args(s) == [k \in 1..Len(s) |-> s[k].arg]

IsPrefix(s, t) == Len(s) <= Len(t) /\ s = SubSeq(t, 1, Len(s))

\* the main flow has left the download loop by exhausting the list
LoopLeft == Len(Connects) > 0

\* the main flow has ended, normally or by an unhandled KeyboardInterrupt
Ended == pc \in {"exit", "crashed"}

\* -------------------------------------------------------------------- C1
\* C1: the fetch loop invokes pull once per configured identifier, in list
\* order: the pulls issued so far are always a prefix of the configured list,
\* after every returned pull (whatever its exit status) the loop is at that
\* model's successor, and once the loop has been left the pulls issued are
\* exactly the configured list, whatever the exit statuses were.
C1_PullsFollowList ==
    /\ IsPrefix(Args(Pulls), MODELS_TO_PULL)
    /\ Len(outcomes) <= Len(Pulls)
    /\ Len(Pulls) <= Len(outcomes) + 1
    /\ (pc = "loop" => Len(Pulls) = i - 1 /\ Len(outcomes) = i - 1)
    /\ (LoopLeft => Args(Pulls) = MODELS_TO_PULL /\ Len(outcomes) = N)

C1_Witness ==
    /\ LoopLeft
    /\ N = 2
    /\ MODELS_TO_PULL[1] # MODELS_TO_PULL[2]
    /\ outcomes = <<1, 0>>
    /\ Len(Pulls) = 2

\* -------------------------------------------------------------------- C2
\* the call sequence of the two-model scenario
C2_Expected ==
    << EvServe(my_env), EvSleep(WARMUP),
       EvPull(MODELS_TO_PULL[1], my_env), EvPull(MODELS_TO_PULL[2], my_env),
       EvConnect(OLLAMA_PORT), EvPrint("url", PublicUrl, 0), EvKill >>

\* C2: for a two-model configuration the external calls are issued in the
\* order serve, sleep(10), pull(a), pull(b), connect(11434), print(url),
\* kill; in particular serve comes before the warm-up sleep and before any
\* pull.  (Stated for the runs in which the tunnel opens; a run cut short by
\* an interrupt shows a prefix of the order.)
C2_CallSequence ==
    (N = 2 /\ tunnel # "failed") =>
        IsPrefix(SelectSeq(trace, IsSequenced), C2_Expected)

\* -------------------------------------------------------------------- C3
\* C3: a pull is issued only after the warm-up sleep was entered and has
\* returned: every pull in the trace is preceded by the sleep(10) call, and
\* whenever a pull has been issued the full warm-up time has elapsed and the
\* main flow is no longer at or in the sleep.
C3_WarmupBeforePull ==
    /\ \A k \in 1..Len(trace) :
          IsPull(trace[k]) => \E j \in 1..(k - 1) : IsWarmup(trace[j])
    /\ (Len(Pulls) > 0 => elapsed >= WARMUP /\ pc \notin {"sleep", "sleeping"})
    /\ (pc \in {"sleep", "sleeping"} => Len(Pulls) = 0)

C3_Witness ==
    /\ pc = "pulling"
    /\ Len(Pulls) = 1
    /\ elapsed = WARMUP

\* -------------------------------------------------------------------- C4
\* C4: when ngrok.connect raises, the script does not end by that exception:
\* unless interrupted it is in the handler or in the idle loop, it reaches
\* the idle loop having printed the diagnostic, and it never prints the URL.
C4_ConnectFailureContained ==
    tunnel = "failed" =>
        /\ SelectSeq(trace, IsUrl) = << >>
        /\ public_url = ""
        /\ (intAt = << >> => pc \in {"except", "idle"})
        /\ (pc = "crashed" => intAt # << >>)
        /\ (pc = "except" => SelectSeq(trace, IsError) = << >>)
        /\ (pc \in {"idle", "handler", "killing", "exit"}
                => Len(SelectSeq(trace, IsError)) = 1)

C4_Witness ==
    /\ tunnel = "failed"
    /\ pc = "idle"
    /\ ticks > 0
    /\ intAt = << >>

\* -------------------------------------------------------------------- C5
\* C5: after an interrupt received in the idle loop, ngrok.kill is invoked
\* exactly once before the script exits: kill is never invoked twice, the
\* script's normal end always has its one kill behind it, and a run whose
\* only interrupt came in the idle loop cannot end without it.
C5_KillOnceBeforeExit ==
    /\ Len(Kills) <= 1
    /\ (pc = "exit" => Len(Kills) = 1 /\ intAt = <<"idle">>)
    /\ (intAt = <<"idle">> => pc \in {"handler", "killing", "exit"})
    /\ (intAt = <<"idle">> /\ pc \in {"killing", "exit"} => Len(Kills) = 1)

C5_Witness ==
    /\ pc = "exit"
    /\ intAt = <<"idle">>
    /\ Len(Kills) = 1
    /\ ticks > 0

\* -------------------------------------------------------------------- C6
\* an environment with both overrides and nothing inherited left out
C6_EnvOk(env) ==
    /\ "OLLAMA_ORIGINS" \in DOMAIN env /\ env["OLLAMA_ORIGINS"] = "*"
    /\ "OLLAMA_HOST" \in DOMAIN env /\ env["OLLAMA_HOST"] = "0.0.0.0"
    /\ \A k \in DOMAIN environ :
          /\ k \in DOMAIN env
          /\ (k \notin {"OLLAMA_ORIGINS", "OLLAMA_HOST"} => env[k] = environ[k])

\* C6: every child launch (serve and each pull) is given an environment with
\* OLLAMA_ORIGINS = "*" and OLLAMA_HOST = "0.0.0.0" that has every inherited
\* variable, each other than those two with its inherited value; the copy,
\* once built, always is that mapping, so all children see the same one.
C6_ChildEnvironment ==
    /\ \A k \in 1..Len(trace) :
          IsChild(trace[k]) => C6_EnvOk(trace[k].env) /\ trace[k].env = my_env
    /\ (my_env # NoEnv \/ tpc # "unstarted" => C6_EnvOk(my_env))

C6_Witness ==
    /\ Len(Serves) = 1
    /\ Len(Pulls) = 2
    /\ "OLLAMA_HOST" \in DOMAIN environ
    /\ IsServe(trace[Len(trace)])

\* -------------------------------------------------------------------- C7
\* C7: ngrok.connect is invoked at most once and only after all N pulls have
\* returned; while the tunnel is being opened or is open no pull is pending
\* or running; at most one pull is running at any time.
C7_TunnelAfterPulls ==
    /\ Len(Connects) <= 1
    /\ (Len(Connects) > 0 => Len(Pulls) = N /\ Len(outcomes) = N)
    /\ (tunnel \in {"opening", "open"}
          => Len(outcomes) = N /\ i > N /\ pc # "pulling")
    /\ (tunnel = "none" => Len(Connects) = 0)
    /\ Len(Pulls) - Len(outcomes) \in {0, 1}

C7_Witness ==
    /\ tunnel = "open"
    /\ N = 2
    /\ Len(outcomes) = 2

\* -------------------------------------------------------------------- C8
\* C8: ngrok.kill is invoked only after an interrupt that arrived in the
\* idle loop: with no interrupt there is no kill, and a run whose first
\* interrupt arrived anywhere else (warm-up, pull, tunnel setup, ...) has
\* ended without a kill.
C8_KillOnlyOnIdleInterrupt ==
    /\ (Len(Kills) > 0 => intAt # << >> /\ intAt[1] = "idle")
    /\ (intAt = << >> => Len(Kills) = 0 /\ pc \notin {"handler", "killing"})
    /\ (intAt # << >> /\ intAt[1] # "idle" => pc = "crashed" /\ Len(Kills) = 0)

C8_Witness ==
    /\ intAt = <<"pulling">>
    /\ pc = "crashed"
    /\ Len(Kills) = 0

\* -------------------------------------------------------------------- C9
\* C9: the ready message of each model is printed once, after that model's
\* pull has returned and before the next pull is issued, whatever the exit
\* status: pulls and ready messages alternate in the trace, model by model
\* in list order, a ready message is never ahead of the returned pulls, and
\* once the loop has been left there is one ready message per model.
C9_ReadyAfterEveryPull ==
    LET pr == SelectSeq(trace, IsPullOrReady) IN
    /\ \A k \in 1..Len(pr) :
          /\ (k % 2 = 1 => IsPull(pr[k]))
          /\ (k % 2 = 0 => IsReady(pr[k]))
          /\ (k + 1) \div 2 <= N
          /\ pr[k].arg = MODELS_TO_PULL[(k + 1) \div 2]
    /\ Len(Readies) <= Len(outcomes)
    /\ Len(outcomes) <= Len(Readies) + 1
    /\ (pc = "loop" => Len(Readies) = Len(outcomes))
    /\ (LoopLeft => Args(Readies) = MODELS_TO_PULL)

C9_Witness ==
    /\ N = 2
    /\ outcomes = <<1, 1>>
    /\ Len(Readies) = 2
    /\ pc = "loop"

\* ------------------------------------------------------------------- C10
\* the whole-script phase of section 4.3, by the main flow's position
Phase(p) ==
    CASE p \in {"config", "env", "spawn"}            -> 0  \* INIT
      [] p = "sleep"                                 -> 1  \* SERVER_STARTING
      [] p = "sleeping"                              -> 2  \* SERVER_WARMUP
      [] p \in {"announce", "loop", "pulling", "ready"} -> 3  \* DOWNLOADING
      [] p \in {"connecting", "banner", "except"}    -> 4  \* TUNNEL_OPENING
      [] p = "idle"                                  -> 5  \* IDLE
      [] p \in {"handler", "killing"}                -> 6  \* TUNNEL_CLOSED
      [] OTHER                                       -> 7  \* EXIT

\* C10: the phase never goes back; every step leaves at most one serve
\* launch, at most one connect and at most one pull per configured model in
\* the trace, and the thread never runs its target again once done.
C10_NoReentryNoRetry ==
    [][ /\ Phase(pc') >= Phase(pc)
        /\ Len(Serves') <= 1
        /\ Len(Connects') <= 1
        /\ Len(Pulls') <= N
        /\ (tpc = "done" => tpc' = "done")
        /\ (tpc # "unstarted" => tpc' # "unstarted") ]_vars

C10_Witness ==
    /\ pc = "exit"
    /\ tunnel = "killed"
    /\ Len(Serves) = 1
    /\ N = 2
    /\ outcomes = <<0, 1>>

====
